---- MODULE Spec2Model ----
(***************************************************************************)
(* Model of the multichat server: the broadcast hub, adapter start-up and  *)
(* shutdown of server/src/index.ts (src/unnamed/part_001, lines 1-255),    *)
(* the Twitch adapter of server/src/adapters/twitch.ts, and the viewer     *)
(* page's App and ChatMessage components (part_001, lines 256-672).        *)
(*                                                                         *)
(* Node runs every callback to completion on one thread, so each handler   *)
(* (a connection, an adapter message, a timer tick, the settlement of an   *)
(* awaited promise) is one atomic action.                                  *)
(***************************************************************************)
EXTENDS Integers, Sequences, FiniteSets, TLC

VARIABLES
    env,          \* process.env: key -> value ("" stands for unset or empty)
    initPc,       \* position of initializeAdapters()
    adapter,      \* tiktok / youtube adapter: its connection status
    fakeOn,       \* the fake-message interval is armed
    stopFns,      \* the stopFns array
    errLog,       \* platforms whose start failure was logged by console.error
    tried,        \* platforms whose start function was called
    clients,      \* wss.clients, in insertion order
    readyState,   \* readyState of every viewer connection
    sent,         \* per connection: the frames handed to send()
    received,     \* per connection: the frames whose send() did not throw
    connectedAt,  \* per connection: Len(published) when it connected
    published,    \* history of broadcast() calls, in call order
    nextId,       \* number of ids drawn from uuidv4() so far
    crashed,      \* an exception reached the top of the event loop
    twStart,      \* the promise startTwitch() returned
    twChannels,   \* the channels option the tmi client was built with
    sock,         \* the tmi client's socket
    reconnectTimer, \* the tmi client has a reconnect scheduled
    wasCloseCalled, \* the tmi client was asked to disconnect
    stops,        \* the calls of the stop() handle, each pending or settled
    delivered,    \* the calls of the caller's onMessage, in order
    escaped,      \* an exception left the adapter's message handler
    inbound,      \* messages the tmi client has emitted
    reconnects,   \* reconnect attempts of the tmi client
    sigRuns,      \* runs of the SIGINT handler: the index in stopFns each awaits
    stopCalls,    \* the stop functions the SIGINT handler has invoked, in order
    shutdownErr,  \* the stops whose failure the SIGINT handler logged
    exited,       \* process.exit was called
    location,     \* the viewer page's window.location
    isPublicMode, \* App's isPublicMode state
    twitchBadges, \* the badge catalog the viewer page holds
    shown,        \* the chat message the ChatMessage component was rendered for
    rendered,     \* what the component rendered for each badge, in order
    monthsAsked   \* the arguments of the getSubscriptionBadgeUrl calls

initVars == <<env, initPc, adapter, fakeOn, stopFns, errLog, tried>>
hubVars == <<clients, readyState, sent, received, connectedAt, published,
             nextId, crashed>>
twVars == <<twStart, twChannels, sock, reconnectTimer, wasCloseCalled, stops, delivered,
            escaped, inbound, reconnects>>
sigVars == <<sigRuns, stopCalls, shutdownErr, exited>>
uiVars == <<location, isPublicMode, twitchBadges, shown, rendered, monthsAsked>>
vars == <<initVars, hubVars, twVars, sigVars, uiVars>>

----------------------------------------------------------------------------
(* Bounds *)

MaxConns == 2        \* viewer connections ever opened
MaxPublished == 2    \* broadcast() calls
MaxInbound == 2      \* messages the Twitch client emits
MaxStops == 2        \* calls of the Twitch stop handle
MaxReconnects == 1   \* reconnect attempts of the Twitch client

Conns == 1..MaxConns

\* the connections whose send() can throw
FaultyConns == {1}

----------------------------------------------------------------------------
(* Values *)

Null == "null"
Platforms == {"twitch", "youtube", "tiktok"}
HostedAdapters == {"tiktok", "youtube"}

EnvKeys == {"TWITCH_USERNAME", "TWITCH_OAUTH", "TWITCH_CHANNELS",
            "TIKTOK_USERNAME", "YT_CHANNEL_ID", "FAKE_MESSAGES"}

\* JavaScript truthiness of an environment string
Truthy(s) == s # ""

Range(s) == {s[i] : i \in DOMAIN s}

\* { ...a, ...b }: the keys of both, b's value where both have the key
Spread(a, b) ==
    [k \in DOMAIN a \cup DOMAIN b |-> IF k \in DOMAIN b THEN b[k] ELSE a[k]]

\* JSON.stringify(msg): the text of one wire frame
Stringify(msg) == [json |-> msg]

\* the connection-acknowledgment message of wss.on('connection')
AckMsg == [type |-> "connection", message |-> "Connected to multichat server"]

IsChat(data) == "id" \in DOMAIN data.json

\* normalize(arg), with id the value uuidv4() returns. The ts field
\* (Date.now()) is left out: nothing below reads it.
normalize(arg, id) ==
    [id       |-> id,
     platform |-> arg.platform,
     username |-> arg.username,
     message  |-> arg.message,
     badges   |-> IF "badges" \in DOMAIN arg THEN arg.badges ELSE <<>>,
     color    |-> IF "color" \in DOMAIN arg /\ arg.color # "" THEN arg.color ELSE Null,
     raw      |-> IF "raw" \in DOMAIN arg THEN arg.raw ELSE "{}"]

----------------------------------------------------------------------------
(* The broadcast hub *)

\* (variant: the frame overtakes the frames already in the stream)
DeliverFirst(stream, data) == <<data>> \o stream

\* client.send(data) when it returns normally: the frame joins the stream
\* the peer reads, behind the frames sent before it
Deliver(stream, data) == Append(stream, data)

\* (variant: no try/catch around send, so its exception leaves the loop)
ClientStepNoCatch(c, data, throws, st) ==
    IF readyState[c] = "OPEN"
    THEN [sent     |-> [st.sent EXCEPT ![c] = Append(@, data)],
          received |-> IF throws THEN st.received
                       ELSE [st.received EXCEPT ![c] = Append(@, data)],
          failed   |-> IF throws THEN st.failed \cup {c} ELSE st.failed,
          threw    |-> st.threw \/ throws]
    ELSE st

\* (variant: no readyState test before send)
ClientStepAnyState(c, data, throws, st) ==
    [sent     |-> [st.sent EXCEPT ![c] = Append(@, data)],
     received |-> IF throws THEN st.received
                  ELSE [st.received EXCEPT ![c] = Append(@, data)],
     failed   |-> IF throws THEN st.failed \cup {c} ELSE st.failed,
     threw    |-> st.threw]

\* body of the for-of loop of broadcast for one client. st carries the
\* send logs, the clients whose send threw, and whether an exception left
\* the loop body.
ClientStep(c, data, throws, st) ==
    IF readyState[c] = "OPEN"
    THEN [sent     |-> [st.sent EXCEPT ![c] = Append(@, data)],
          received |-> IF throws THEN st.received
                       ELSE [st.received EXCEPT ![c] = Deliver(@, data)],
          failed   |-> IF throws THEN st.failed \cup {c} ELSE st.failed,
          threw    |-> st.threw]
    ELSE st

RECURSIVE SendAll(_, _, _, _)
\* for (const client of wss.clients) { ... }: in insertion order, ended by
\* an exception that leaves the body
SendAll(cs, data, throwing, st) ==
    IF cs = <<>> \/ st.threw THEN st
    ELSE SendAll(Tail(cs), data, throwing,
                 ClientStep(Head(cs), data, Head(cs) \in throwing, st))

OpenClients == {c \in Range(clients) : readyState[c] = "OPEN"}

\* broadcast(msg); throwing = the clients whose send() throws this time.
\* The history entry also notes the caller (via) and the clients that were
\* OPEN when the call was made.
broadcast(msg, throwing, via) ==
    LET data == Stringify(msg)
        st == SendAll(clients, data, throwing,
                      [sent |-> sent, received |-> received,
                       failed |-> {}, threw |-> FALSE])
    IN /\ sent' = st.sent
       /\ received' = st.received
       /\ published' = Append(published,
              [data |-> data, via |-> via, open |-> OpenClients,
               failed |-> st.failed, threw |-> st.threw])

\* (variant: the handler replays the messages published so far)
ConnectionFramesReplay(history) ==
    [i \in DOMAIN history |-> history[i].data] \o <<Stringify(AckMsg)>>

\* the frames the connection handler sends to a new viewer
ConnectionFrames(history) == <<Stringify(AckMsg)>>

\* wss.on('connection'): ws has put the socket, already OPEN, into
\* wss.clients before it emits the event. The send is not guarded: if it
\* throws, the exception leaves the listener uncaught.
ViewerConnect(c, throws) ==
    /\ ~crashed
    /\ initPc # "start"
    /\ readyState[c] = "NONE"
    /\ throws => c \in FaultyConns
    /\ \A d \in Conns : d < c => readyState[d] # "NONE"
    /\ clients' = Append(clients, c)
    /\ readyState' = [readyState EXCEPT ![c] = "OPEN"]
    /\ connectedAt' = [connectedAt EXCEPT ![c] = Len(published)]
    /\ sent' = [sent EXCEPT ![c] = @ \o ConnectionFrames(published)]
    /\ received' = IF throws THEN received
                   ELSE [received EXCEPT ![c] = @ \o ConnectionFrames(published)]
    /\ crashed' = throws
    /\ UNCHANGED <<sigVars, uiVars,
                   initVars, twVars, published, nextId>>

\* the viewer's close handshake begins: readyState leaves OPEN, the socket
\* stays in wss.clients
ViewerClosing(c) ==
    /\ ~crashed
    /\ readyState[c] = "OPEN"
    /\ readyState' = [readyState EXCEPT ![c] = "CLOSING"]
    /\ UNCHANGED <<sigVars, uiVars,
                   initVars, twVars, clients, sent, received, connectedAt,
                   published, nextId, crashed>>

\* ws.on('close'): the socket is CLOSED and ws has removed it from wss.clients
ViewerClosed(c) ==
    /\ ~crashed
    /\ readyState[c] = "CLOSING"
    /\ readyState' = [readyState EXCEPT ![c] = "CLOSED"]
    /\ clients' = SelectSeq(clients, LAMBDA d : d # c)
    /\ UNCHANGED <<sigVars, uiVars,
                   initVars, twVars, sent, received, connectedAt,
                   published, nextId, crashed>>

----------------------------------------------------------------------------
(* Adapter events *)

\* the events an adapter hands to onMessage: one with the required fields
\* and an empty color, one with every optional field and a platform field
\* of its own
AdapterEvents ==
    { [username |-> "u", message |-> "m", color |-> ""],
      [username |-> "u", message |-> "m", badges |-> <<"subscriber">>,
       color |-> "#ff0000", raw |-> "ctx", platform |-> "youtube"] }

\* the fake generator's Math.random() draws: <<platform, badges>>
FakeDraws == { <<"twitch", <<>>>>, <<"tiktok", <<"test">>>> }


\* onMessage(evt) of the adapter started for platform p
onMessage(p, evt, throwing) ==
    /\ broadcast(normalize(Spread([platform |-> p], evt), nextId + 1),
                 throwing, p)
    /\ nextId' = nextId + 1

\* an adapter's callback runs: normalize, then broadcast
AdapterMessage(p, evt, throwing) ==
    /\ ~crashed
    /\ adapter[p] = "connected"
    /\ Len(published) < MaxPublished
    /\ throwing \subseteq (OpenClients \cap FaultyConns)
    /\ onMessage(p, evt, throwing)
    /\ UNCHANGED <<sigVars, uiVars,
                   initVars, twVars, clients, readyState, connectedAt, crashed>>

\* the setInterval callback of the fake-message generator
FakeTick(draw, throwing) ==
    /\ ~crashed
    /\ fakeOn
    /\ Len(published) < MaxPublished
    /\ throwing \subseteq (OpenClients \cap FaultyConns)
    /\ broadcast(normalize([platform |-> draw[1], username |-> "User",
                            message |-> "Hello world", badges |-> draw[2]],
                           nextId + 1), throwing, "fake")
    /\ nextId' = nextId + 1
    /\ UNCHANGED <<sigVars, uiVars,
                   initVars, twVars, clients, readyState, connectedAt, crashed>>

----------------------------------------------------------------------------
(* Start-up: initializeAdapters *)

\* startTwitch's code before its first await: `channel` is destructured
\* from the configuration and channel.startsWith is called on it
StartTwitchThrows(cfg) == "channel" \notin DOMAIN cfg

\* the object initializeAdapters passes to startTwitch
IndexTwitchArgs ==
    [username |-> env["TWITCH_USERNAME"], oauth |-> env["TWITCH_OAUTH"],
     channels |-> <<env["TWITCH_CHANNELS"]>>, onMessage |-> "twitch",
     debug |-> FALSE]

\* (variant: || in place of &&)
TwitchConfiguredAny ==
    Truthy(env["TWITCH_USERNAME"]) \/ Truthy(env["TWITCH_OAUTH"])
        \/ Truthy(env["TWITCH_CHANNELS"])

TwitchConfigured ==
    Truthy(env["TWITCH_USERNAME"]) /\ Truthy(env["TWITCH_OAUTH"])
        /\ Truthy(env["TWITCH_CHANNELS"])

Configured(p) ==
    CASE p = "twitch" -> TwitchConfigured
      [] p = "tiktok" -> Truthy(env["TIKTOK_USERNAME"])
      [] p = "youtube" -> Truthy(env["YT_CHANNEL_ID"])

FakeConfigured == env["FAKE_MESSAGES"] = "true"

\* The blocks of initializeAdapters work on st = [pc, adapter, fakeOn,
\* stopFns, errLog, tried]; tried records the platforms whose start function
\* was called.

\* the Twitch block: skipped without its keys; otherwise startTwitch is
\* awaited inside try/catch, and a rejection is logged
TwitchBlock(st) ==
    IF Configured("twitch")
    THEN IF StartTwitchThrows(IndexTwitchArgs)
         THEN [st EXCEPT !.pc = "tiktok", !.errLog = @ \cup {"twitch"},
                         !.tried = @ \cup {"twitch"}]
         ELSE [st EXCEPT !.pc = "await_twitch", !.tried = @ \cup {"twitch"}]
    ELSE [st EXCEPT !.pc = "tiktok"]

NextPc(p) == IF p = "tiktok" THEN "youtube" ELSE "fake"

\* the TikTok and YouTube blocks up to their await
HostedBlock(p, st) ==
    IF Configured(p)
    THEN [st EXCEPT !.pc = "await_" \o p, !.adapter[p] = "connecting",
                    !.tried = @ \cup {p}]
    ELSE [st EXCEPT !.pc = NextPc(p)]

\* the fake-message block
FakeBlock(st) ==
    IF FakeConfigured
    THEN [st EXCEPT !.pc = "done", !.fakeOn = TRUE,
                    !.stopFns = Append(@, "fake")]
    ELSE [st EXCEPT !.pc = "done"]

Suspended(pc) == pc \in {"await_twitch", "await_tiktok", "await_youtube", "done"}

RECURSIVE RunBlocks(_)
\* initializeAdapters runs on, without yielding to the event loop, until it
\* awaits a pending start or returns: a skipped block and a start that
\* throws before its first await do not let another callback in
RunBlocks(st) ==
    IF Suspended(st.pc) THEN st
    ELSE RunBlocks(CASE st.pc = "twitch" -> TwitchBlock(st)
                     [] st.pc = "tiktok" -> HostedBlock("tiktok", st)
                     [] st.pc = "youtube" -> HostedBlock("youtube", st)
                     [] st.pc = "fake" -> FakeBlock(st))

InitState(pc) ==
    [pc |-> pc, adapter |-> adapter, fakeOn |-> fakeOn, stopFns |-> stopFns,
     errLog |-> errLog, tried |-> tried]

SetInit(st) ==
    /\ initPc' = st.pc
    /\ adapter' = st.adapter
    /\ fakeOn' = st.fakeOn
    /\ stopFns' = st.stopFns
    /\ errLog' = st.errLog
    /\ tried' = st.tried

\* the server.listen callback: the server listens and initializeAdapters
\* is called
Listening ==
    /\ ~crashed
    /\ initPc = "start"
    /\ SetInit(RunBlocks(InitState("twitch")))
    /\ UNCHANGED <<env, hubVars, twVars, sigVars, uiVars>>

\* the start promise initializeAdapters awaits settles: fulfilled with the
\* stop handle, which is pushed, or rejected, which the catch logs; the
\* function then runs on
StartSettles(p, ok) ==
    /\ ~crashed
    /\ initPc = "await_" \o p
    /\ LET st == InitState(NextPc(p)) IN
       SetInit(RunBlocks(
           IF ok
           THEN [st EXCEPT !.adapter[p] = "connected", !.stopFns = Append(@, p)]
           ELSE [st EXCEPT !.adapter[p] = "failed", !.errLog = @ \cup {p}]))
    /\ UNCHANGED <<env, hubVars, twVars, sigVars, uiVars>>

----------------------------------------------------------------------------
(* The server *)

EnvValues == {"", "true"}

TwInit ==
    /\ twStart = "notCalled"
    /\ twChannels = <<>>
    /\ sock = "null"
    /\ reconnectTimer = FALSE
    /\ wasCloseCalled = FALSE
    /\ stops = <<>>
    /\ delivered = <<>>
    /\ escaped = FALSE
    /\ inbound = <<>>
    /\ reconnects = 0

HubInit ==
    /\ clients = <<>>
    /\ readyState = [c \in Conns |-> "NONE"]
    /\ sent = [c \in Conns |-> <<>>]
    /\ received = [c \in Conns |-> <<>>]
    /\ connectedAt = [c \in Conns |-> 0]
    /\ published = <<>>
    /\ nextId = 0
    /\ crashed = FALSE

\* no SIGINT has been received
SigInit ==
    /\ sigRuns = <<>>
    /\ stopCalls = <<>>
    /\ shutdownErr = <<>>
    /\ exited = FALSE

\* no viewer page is open
UiInit ==
    /\ location = <<>>
    /\ isPublicMode = <<>>
    /\ twitchBadges = <<>>
    /\ shown = <<>>
    /\ rendered = <<>>
    /\ monthsAsked = <<>>

Init ==
    /\ env \in [EnvKeys -> EnvValues]
    /\ initPc = "start"
    /\ adapter = [p \in HostedAdapters |-> "idle"]
    /\ fakeOn = FALSE
    /\ stopFns = <<>>
    /\ errLog = {}
    /\ tried = {}
    /\ HubInit
    /\ TwInit
    /\ SigInit
    /\ UiInit

Next ==
    \/ Listening
    \/ \E p \in HostedAdapters, ok \in BOOLEAN : StartSettles(p, ok)
    \/ \E p \in HostedAdapters, evt \in AdapterEvents, t \in SUBSET FaultyConns :
           AdapterMessage(p, evt, t)
    \/ \E d \in FakeDraws, t \in SUBSET FaultyConns : FakeTick(d, t)
    \/ \E c \in Conns, throws \in BOOLEAN : ViewerConnect(c, throws)
    \/ \E c \in Conns : ViewerClosing(c)
    \/ \E c \in Conns : ViewerClosed(c)

Spec == Init /\ [][Next]_vars

----------------------------------------------------------------------------
(* The Twitch adapter: startTwitch *)

Undef == "undefined"
NaN == "NaN"

\* x || y
Or(x, y) == IF x \in {Undef, Null, ""} THEN y ELSE x

Digits == <<"0", "1", "2", "3", "4", "5", "6", "7", "8", "9">>
IsDigit(ch) == \E i \in DOMAIN Digits : Digits[i] = ch
DigitValue(ch) == (CHOOSE i \in DOMAIN Digits : Digits[i] = ch) - 1

RECURSIVE ParseDigits(_, _)
ParseDigits(chars, acc) ==
    IF chars = <<>> \/ ~IsDigit(Head(chars)) THEN acc
    ELSE ParseDigits(Tail(chars), 10 * acc + DigitValue(Head(chars)))

\* parseInt(s, 10) of a string given as its characters: the value of the
\* leading digits, NaN without any
ParseInt(chars) ==
    IF chars = <<>> \/ ~IsDigit(Head(chars)) THEN NaN ELSE ParseDigits(chars, 0)

\* tags.badges is an ordered list of <<name, version>> pairs
BadgeValue(badges, name) ==
    IF \E i \in DOMAIN badges : badges[i][1] = name
    THEN badges[CHOOSE i \in DOMAIN badges : badges[i][1] = name][2]
    ELSE <<>>

\* a tags object holds the fields that are present
NoTags == [absent |-> TRUE]
Has(tags, k) == k \in DOMAIN tags
Field(tags, k) == IF Has(tags, k) THEN tags[k] ELSE Undef

\* Object.keys(tags.badges || {})
BadgeKeys(tags) ==
    IF Has(tags, "badges")
    THEN [i \in DOMAIN tags.badges |-> tags.badges[i][1]]
    ELSE <<>>

\* the tags of an inbound message: missing altogether, bare, and complete
TagSets ==
    { NoTags,
      [username |-> "bob"],
      [displayName |-> "Bob", username |-> "bob", color |-> "#0000ff",
       badges |-> << <<"subscriber", <<"1", "2">> >>, <<"moderator", <<"1">> >> >>] }

\* what the tmi client emits with 'message', and whether the caller's
\* onMessage throws when it is called for it
InboundMessages ==
    [self : BOOLEAN, tags : TagSets, message : {"hi"}, cbThrows : BOOLEAN]

\* lines 23-26; a badge version that is absent or empty is falsy
SubscriptionMonths(tags) ==
    IF Has(tags, "badges") /\ BadgeValue(tags.badges, "subscriber") # <<>>
    THEN ParseInt(BadgeValue(tags.badges, "subscriber"))
    ELSE Null

\* the event of lines 28-38
TwitchEvent(channel, m) ==
    [username |-> Or(Field(m.tags, "displayName"),
                     Or(Field(m.tags, "username"), "unknown")),
     message  |-> m.message,
     badges   |-> BadgeKeys(m.tags),
     color    |-> Or(Field(m.tags, "color"), Null),
     raw      |-> [channel |-> channel, tags |-> m.tags,
                   subscriptionMonths |-> SubscriptionMonths(m.tags)]]

\* (variant: the handler body without its try/catch)
MessageHandlerNoCatch(m, log) ==
    IF m.self THEN [delivered |-> log, escaped |-> FALSE]
    ELSE IF m.tags = NoTags THEN [delivered |-> log, escaped |-> TRUE]
    ELSE [delivered |-> Append(log, TwitchEvent(twChannels, m)),
          escaped |-> m.cbThrows]

\* client.on('message', ...): the calls of onMessage after the handler has
\* run for m, and whether an exception left the handler. Reading a property
\* of missing tags and a throwing onMessage both happen inside the try.
MessageHandler(m, log) ==
    IF m.self THEN [delivered |-> log, escaped |-> FALSE]
    ELSE IF m.tags = NoTags THEN [delivered |-> log, escaped |-> FALSE]
    ELSE [delivered |-> Append(log, TwitchEvent(twChannels, m)),
          escaped |-> FALSE]

\* the configurations startTwitch is called with; a channel is its
\* characters. The last is the shape index.ts passes.
TwitchConfigs ==
    { [channel |-> <<"#", "c">>, debug |-> FALSE],
      [channel |-> <<"c">>, debug |-> TRUE],
      [channels |-> <<"c">>, debug |-> FALSE] }

\* line 12
NormalizedChannel(channel) ==
    IF channel # <<>> /\ Head(channel) = "#" THEN Tail(channel) ELSE channel

\* startTwitch(cfg) up to await client.connect()
TwStart(cfg) ==
    /\ twStart = "notCalled"
    /\ IF StartTwitchThrows(cfg)
       THEN /\ twStart' = "rejected"
            /\ UNCHANGED <<twChannels, sock>>
       ELSE /\ twStart' = "awaiting"
            /\ twChannels' = <<NormalizedChannel(cfg.channel)>>
            /\ sock' = "connecting"
    /\ UNCHANGED <<sigVars, uiVars,
                   initVars, hubVars, reconnectTimer, wasCloseCalled, stops,
                   delivered, escaped, inbound, reconnects>>

\* the tmi client's connection is established; a pending connect() promise
\* is fulfilled and startTwitch returns the stop handle
TwConnected ==
    /\ sock = "connecting"
    /\ sock' = "open"
    /\ twStart' = IF twStart = "awaiting" THEN "resolved" ELSE twStart
    /\ UNCHANGED <<sigVars, uiVars,
                   initVars, hubVars, twChannels, reconnectTimer,
                   wasCloseCalled, stops, delivered, escaped, inbound, reconnects>>

\* the pending stop() calls when the socket has closed
SettlePending(ss) ==
    [i \in DOMAIN ss |-> IF ss[i] = "pending" THEN "disconnected" ELSE ss[i]]

\* the tmi client's socket closes: after disconnect() the client stays
\* down and the disconnect promises are fulfilled; otherwise the client may
\* schedule a reconnect (again), and a pending connect() promise is rejected
TwSocketClosed(again) ==
    /\ sock \in {"connecting", "open", "closing"}
    /\ sock' = "null"
    /\ IF wasCloseCalled
       THEN /\ wasCloseCalled' = FALSE
            /\ stops' = SettlePending(stops)
            /\ reconnectTimer' = FALSE
       ELSE /\ sock # "closing"
            /\ reconnectTimer' = again
            /\ UNCHANGED <<wasCloseCalled, stops>>
    /\ twStart' = IF twStart = "awaiting" THEN "rejected" ELSE twStart
    /\ UNCHANGED <<sigVars, uiVars,
                   initVars, hubVars, twChannels, delivered, escaped,
                   inbound, reconnects>>

\* the tmi client's reconnect timer fires
TwReconnect ==
    /\ reconnectTimer
    /\ sock = "null"
    /\ reconnects < MaxReconnects
    /\ reconnectTimer' = FALSE
    /\ sock' = "connecting"
    /\ reconnects' = reconnects + 1
    /\ UNCHANGED <<sigVars, uiVars,
                   initVars, hubVars, twStart, twChannels, wasCloseCalled,
                   stops, delivered, escaped, inbound>>

\* the tmi client emits 'message'; an exception that leaves the handler is
\* uncaught and ends the process
TwInbound(m) ==
    /\ sock \in {"open", "closing"}
    /\ ~escaped
    /\ Len(inbound) < MaxInbound
    /\ inbound' = Append(inbound, m)
    /\ LET r == MessageHandler(m, delivered) IN
       /\ delivered' = r.delivered
       /\ escaped' = r.escaped
    /\ UNCHANGED <<sigVars, uiVars,
                   initVars, hubVars, twStart, twChannels, sock,
                   reconnectTimer, wasCloseCalled, stops, reconnects>>

\* (variant: stop() without its try/catch)
StopAfterRejectionNoCatch == "threw"

\* stop() when client.disconnect() rejects: the catch swallows the error
StopAfterRejection == "caught"

\* stop(): client.disconnect() closes a socket that is not yet closed and
\* is fulfilled when it has closed; with no socket it rejects at once
TwStop ==
    /\ twStart = "resolved"
    /\ ~escaped
    /\ Len(stops) < MaxStops
    /\ IF sock # "null"
       THEN /\ wasCloseCalled' = TRUE
            /\ sock' = "closing"
            /\ stops' = Append(stops, "pending")
       ELSE /\ stops' = Append(stops, StopAfterRejection)
            /\ UNCHANGED <<wasCloseCalled, sock>>
    /\ UNCHANGED <<sigVars, uiVars,
                   initVars, hubVars, twStart, twChannels, reconnectTimer,
                   delivered, escaped, inbound, reconnects>>

TwitchInit ==
    /\ env = [k \in EnvKeys |-> ""]
    /\ initPc = "start"
    /\ adapter = [p \in HostedAdapters |-> "idle"]
    /\ fakeOn = FALSE
    /\ stopFns = <<>>
    /\ errLog = {}
    /\ tried = {}
    /\ HubInit
    /\ TwInit
    /\ SigInit
    /\ UiInit

TwitchNext ==
    \/ \E cfg \in TwitchConfigs : TwStart(cfg)
    \/ TwConnected
    \/ \E again \in BOOLEAN : TwSocketClosed(again)
    \/ TwReconnect
    \/ \E m \in InboundMessages : TwInbound(m)
    \/ TwStop

\* startTwitch driven by a caller and by the tmi client
SpecTwitch == TwitchInit /\ [][TwitchNext]_vars

\* the program's own steps are taken when they can be; the settling of a
\* start promise is the network's doing and carries no fairness
FairSpec == Spec /\ WF_vars(Listening)

----------------------------------------------------------------------------
(* Shutdown: process.on('SIGINT') *)

MaxSignals == 1      \* SIGINT signals the process receives

\* what a call of a TikTok or YouTube stop function does before the handler
\* awaits it: it throws, or it returns a promise that is still pending
StopOutcomes == {"threw", "pending"}

RECURSIVE RunStops(_, _, _)
\* the for-of loop over stopFns from index i, run until the handler awaits a
\* pending stop (at = i) or the loop ends and process.exit(0) is called
\* (at = 0). The array iterator reads stopFns by index at every step, so an
\* entry pushed while the handler was suspended is visited too. The fake
\* generator's stop is clearInterval, which returns at once; a stop that
\* throws is caught and logged, and the loop goes on.
RunStops(i, outs, st) ==
    IF i > Len(stopFns) THEN [st EXCEPT !.at = 0]
    ELSE LET stop == stopFns[i]
             called == [st EXCEPT !.calls = Append(@, stop)]
         IN  IF stop = "fake"
             THEN RunStops(i + 1, outs, [called EXCEPT !.fakeOn = FALSE])
             ELSE IF outs[stop] = "threw"
             THEN RunStops(i + 1, outs, [called EXCEPT !.errs = Append(@, stop)])
             ELSE [called EXCEPT !.at = i]

ShutdownState ==
    [calls |-> stopCalls, errs |-> shutdownErr, fakeOn |-> fakeOn, at |-> 0]

\* the handler run r has gone on to st
SetShutdown(r, st) ==
    /\ sigRuns' = [i \in 1..r |-> IF i = r THEN st.at ELSE sigRuns[i]]
    /\ stopCalls' = st.calls
    /\ shutdownErr' = st.errs
    /\ fakeOn' = st.fakeOn
    /\ exited' = (st.at = 0)

\* SIGINT arrives: the handler starts a run of the loop
SigInt(outs) ==
    /\ ~exited
    /\ Len(sigRuns) < MaxSignals
    /\ SetShutdown(Len(sigRuns) + 1, RunStops(1, outs, ShutdownState))
    /\ UNCHANGED <<env, initPc, adapter, stopFns, errLog, tried, hubVars,
                   twVars, uiVars>>

\* the stop promise run r awaits settles: a rejection is caught and logged,
\* and the loop goes on with the next entry
StopSettles(r, ok, outs) ==
    /\ ~exited
    /\ r \in DOMAIN sigRuns
    /\ r = Len(sigRuns)
    /\ sigRuns[r] > 0
    /\ LET st == IF ok THEN ShutdownState
                 ELSE [ShutdownState EXCEPT
                           !.errs = Append(@, stopFns[sigRuns[r]])]
       IN  SetShutdown(r, RunStops(sigRuns[r] + 1, outs, st))
    /\ UNCHANGED <<env, initPc, adapter, stopFns, errLog, tried, hubVars,
                   twVars, uiVars>>

\* start-up and shutdown of the server process; nothing runs after
\* process.exit
ShutdownNext ==
    \/ ~exited /\ Listening
    \/ ~exited /\ \E p \in HostedAdapters, ok \in BOOLEAN : StartSettles(p, ok)
    \/ \E outs \in [HostedAdapters -> StopOutcomes] : SigInt(outs)
    \/ \E r \in 1..MaxSignals, ok \in BOOLEAN,
          outs \in [HostedAdapters -> StopOutcomes] : StopSettles(r, ok, outs)

SpecShutdown == Init /\ [][ShutdownNext]_vars

\* the program's own steps are taken when they can be; whether a start or a
\* stop promise settles is the adapter's doing and carries no fairness
FairShutdown == SpecShutdown /\ WF_vars(~exited /\ Listening)

----------------------------------------------------------------------------
(* The viewer page: App *)

\* String.prototype.toLowerCase on the strings the page meets
ToLowerCase(str) ==
    CASE str = "TRUE" -> "true"
      [] str = "Yes" -> "yes"
      [] str = "PUBLIC" -> "public"
      [] str = "Subscriber" -> "subscriber"
      [] str = "Bits" -> "bits"
      [] str = "VIP" -> "vip"
      [] OTHER -> str

\* params.get(name): the parameter's value, Null without the parameter
ModeParams == {Null, "public", "private", "PUBLIC"}
PrivateParams == {Null, "1", "TRUE", "Yes", "0"}

\* window.location.pathname as its characters, a path segment being one
Pathnames ==
    { <<"/">>, <<"/", "private">>, <<"/", "private", "/">>,
      <<"/", "overlay">> }

Locations == [mode : ModeParams, private : PrivateParams, pathname : Pathnames]

RECURSIVE StripTrailingSlashes(_)
\* pathname.replace(/\/+$/, '')
StripTrailingSlashes(chars) ==
    IF chars # <<>> /\ chars[Len(chars)] = "/"
    THEN StripTrailingSlashes(SubSeq(chars, 1, Len(chars) - 1))
    ELSE chars

\* the initializer of the isPublicMode state
IsPublicMode(loc) ==
    LET modeParam == loc.mode
        privateParam == loc.private
        isPrivateParam ==
            privateParam # Null
                /\ ToLowerCase(privateParam) \in {"1", "true", "yes"}
        path == StripTrailingSlashes(loc.pathname)
        isPrivatePath == path = <<"/", "private">>
        isPublic == modeParam = "public"
    IN  isPublic \/ ~(isPrivateParam \/ isPrivatePath)

\* A state of the page that is not set yet is <<>>, one that is set to v
\* is <<v>>.

\* App is mounted: the isPublicMode state is initialized from the URL
AppMount ==
    /\ location # <<>>
    /\ isPublicMode = <<>>
    /\ isPublicMode' = <<IsPublicMode(location[1])>>
    /\ UNCHANGED <<initVars, hubVars, twVars, sigVars, location, twitchBadges,
                   shown, rendered, monthsAsked>>

----------------------------------------------------------------------------
(* The viewer page: ChatMessage *)

\* On the page a value that may be null is <<>> for null and <<v>> for v;
\* an object is the record of the properties it has, {} being <<>>.

\* parseInt(chars, 10) is NaN
IsNaN(chars) == chars = <<>> \/ ~IsDigit(Head(chars))

\* raw as the page reads it from the frame: JSON.stringify writes null for
\* a subscriptionMonths of null and of NaN, and the number otherwise
JsonRaw(raw) ==
    LET version == IF Has(raw.tags, "badges")
                   THEN BadgeValue(raw.tags.badges, "subscriber") ELSE <<>>
    IN  [channel |-> raw.channel, tags |-> raw.tags,
         subscriptionMonths |->
             IF IsNaN(version) THEN <<>> ELSE <<raw.subscriptionMonths>>]

\* the fields of a chat frame that the badge code of ChatMessage reads
ViewerParse(data) ==
    [platform |-> data.json.platform, badges |-> data.json.badges,
     raw |-> JsonRaw(data.json.raw)]

Max(S) == CHOOSE x \in S : \A y \in S : y <= x
Min(S) == CHOOSE x \in S : \A y \in S : x <= y

\* The badge catalog: the subscription tiers, the cheer thresholds and the
\* global badge identifiers it has a reference for.
Catalogs ==
    { [subs |-> {}, cheers |-> {}, globals |-> {}],
      [subs |-> {3}, cheers |-> {100}, globals |-> {"moderator"}],
      [subs |-> {1, 3, 6}, cheers |-> {1, 100}, globals |-> {"moderator", "vip"}] }

\* the tier not above the month count that is nearest to it, the lowest
\* tier when there is none, null with no tier at all
getSubscriptionBadgeUrl(cat, months) ==
    LET below == {t \in cat.subs : t <= months}
    IN  IF cat.subs = {} THEN <<>>
        ELSE IF below # {} THEN <<Max(below)>> ELSE <<Min(cat.subs)>>

\* the highest threshold not above the amount, null when there is none
getCheerBadgeUrl(cat, bits) ==
    LET below == {t \in cat.cheers : t <= bits}
    IN  IF below = {} THEN <<>> ELSE <<Max(below)>>

\* keyed lookup of a global badge
getBadgeUrl(cat, id) == IF id \in cat.globals THEN <<id>> ELSE <<>>

\* getSubscriptionMonths(): the three methods in turn
getSubscriptionMonths(msg) ==
    LET raw == msg.raw
        months == IF Has(raw, "subscriptionMonths")
                  THEN raw.subscriptionMonths ELSE <<>>
        tagged == IF Has(raw, "tags") /\ Has(raw.tags, "badges")
                  THEN BadgeValue(raw.tags.badges, "subscriber") ELSE <<>>
        other == IF Has(raw, "badges")
                 THEN BadgeValue(raw.badges, "subscriber") ELSE <<>>
    IN  IF msg.platform # "twitch" THEN <<>>
        ELSE IF months # <<>> /\ months[1] # 0 THEN months
        ELSE IF tagged # <<>> /\ ~IsNaN(tagged) THEN <<ParseInt(tagged)>>
        ELSE IF other # <<>> /\ ~IsNaN(other) THEN <<ParseInt(other)>>
        ELSE <<>>

\* (variant: no fallback to one month)
MonthsNoFallback(subscriptionMonths) ==
    IF subscriptionMonths # <<>> THEN subscriptionMonths[1] ELSE 0

\* subscriptionMonths || 1
MonthsOrOne(subscriptionMonths) ==
    IF subscriptionMonths # <<>> /\ subscriptionMonths[1] # 0
    THEN subscriptionMonths[1] ELSE 1

\* raw?.cheerAmount || 1
BitsOrOne(raw) ==
    IF Has(raw, "cheerAmount") /\ raw.cheerAmount # 0
    THEN raw.cheerAmount ELSE 1

\* (variant: the identifier is matched as it is written)
BadgeAsWritten(badge) == badge

\* badge.toLowerCase()
BadgeLower(badge) == ToLowerCase(badge)

\* badgeLower.startsWith('cheer'), of the identifiers the page meets
StartsWithCheer(badgeLower) == badgeLower \in {"cheer", "cheer100"}

isTwitchSubscriber(msg, badge) ==
    msg.platform = "twitch" /\ BadgeLower(badge) = "subscriber"

isTwitchCheer(msg, badge) ==
    msg.platform = "twitch"
        /\ (BadgeLower(badge) = "bits" \/ StartsWithCheer(BadgeLower(badge)))

\* what the callback of badges.map returns for the badge at index
RenderBadge(msg, index, public, cat) ==
    LET badge == msg.badges[index]
        months == MonthsOrOne(getSubscriptionMonths(msg))
        subscriptionBadgeUrl == getSubscriptionBadgeUrl(cat, months)
        bits == BitsOrOne(msg.raw)
        cheerBadgeUrl == getCheerBadgeUrl(cat, bits)
        badgeUrl == getBadgeUrl(cat, BadgeLower(badge))
    IN  IF isTwitchSubscriber(msg, badge) /\ subscriptionBadgeUrl # <<>>
        THEN [kind |-> "img", key |-> index, tier |-> subscriptionBadgeUrl[1],
              months |-> months]
        ELSE IF isTwitchCheer(msg, badge) /\ cheerBadgeUrl # <<>>
        THEN [kind |-> "img", key |-> index, threshold |-> cheerBadgeUrl[1],
              bits |-> bits]
        ELSE IF msg.platform = "twitch" /\ ~isTwitchSubscriber(msg, badge)
                /\ ~isTwitchCheer(msg, badge) /\ badgeUrl # <<>>
        THEN [kind |-> "img", key |-> index, id |-> badgeUrl[1]]
        ELSE IF ~public
        THEN [kind |-> "label", key |-> index, text |-> badge]
        ELSE [kind |-> "null", key |-> index]

\* the getSubscriptionBadgeUrl calls of one rendering: one for every badge
\* that is Twitch's subscriber badge
SubscriptionCalls(msg) ==
    LET subs == SelectSeq(msg.badges, LAMBDA b : isTwitchSubscriber(msg, b))
    IN  [i \in DOMAIN subs |-> MonthsOrOne(getSubscriptionMonths(msg))]

\* the versions of the subscriber badge in the tags of a Twitch message:
\* twelve months, zero, unparseable, empty, digits followed by a letter
SubscriberVersions == { <<"1", "2">>, <<"0">>, <<"x">>, <<>>, <<"3", "x">> }

BadgeTagSets ==
    { [username |-> "bob",
       badges |-> << <<"subscriber", v>>, <<"moderator", <<"1">> >> >>] :
          v \in SubscriberVersions }
      \cup (TagSets \ {NoTags})

\* the frames the hub sends for the Twitch adapter's messages
TwitchFrames ==
    { Stringify(normalize(Spread([platform |-> "twitch"],
                                 TwitchEvent(<<"c">>, [tags |-> t, message |-> "hi"])),
                          1)) : t \in BadgeTagSets }

BadgeLists ==
    { <<>>, <<"test">>, <<"test", "Subscriber", "VIP">>, <<"Bits", "unknown">>,
      <<"cheer100", "moderator", "subscriber">> }

\* raw objects of other origin: empty, with a cheer amount, with a
\* subscriber version under raw.badges, with a month count
OtherRaws ==
    { <<>>, [cheerAmount |-> 150],
      [badges |-> << <<"subscriber", <<"6">> >> >>],
      [subscriptionMonths |-> <<3>>, cheerAmount |-> 50] }

\* the chat messages a ChatMessage component is rendered for
ViewerMessages ==
    { ViewerParse(f) : f \in TwitchFrames }
      \cup [platform : Platforms, badges : BadgeLists, raw : OtherRaws]

\* ChatMessage is rendered for msg: badges.map runs over the badges in order
Render(msg) ==
    /\ isPublicMode # <<>>
    /\ shown' = <<msg>>
    /\ rendered' = [i \in DOMAIN msg.badges |->
                       RenderBadge(msg, i, isPublicMode[1], twitchBadges[1])]
    /\ monthsAsked' = SubscriptionCalls(msg)
    /\ UNCHANGED <<initVars, hubVars, twVars, sigVars, location, isPublicMode,
                   twitchBadges>>

\* a page is opened at some URL with some catalog loaded
PageInit ==
    /\ env = [k \in EnvKeys |-> ""]
    /\ initPc = "start"
    /\ adapter = [p \in HostedAdapters |-> "idle"]
    /\ fakeOn = FALSE
    /\ stopFns = <<>>
    /\ errLog = {}
    /\ tried = {}
    /\ HubInit
    /\ TwInit
    /\ SigInit
    /\ location \in {<<loc>> : loc \in Locations}
    /\ isPublicMode = <<>>
    /\ twitchBadges \in {<<cat>> : cat \in Catalogs}
    /\ shown = <<>>
    /\ rendered = <<>>
    /\ monthsAsked = <<>>

PageNext ==
    \/ AppMount
    \/ \E msg \in ViewerMessages : Render(msg)

SpecPage == PageInit /\ [][PageNext]_vars

----------------------------------------------------------------------------
(* Properties of the hub *)

\* position of a chat frame in the order of broadcast() calls
CallIndex(data) == CHOOSE i \in DOMAIN published : published[i].data = data

ChatFrames(log) == SelectSeq(log, IsChat)

\* C1: every broadcast() call hands the event to send() for each viewer
\* that is OPEN at the call, whether or not the send to another viewer
\* throws, and no exception reaches the caller of broadcast.
C1_BroadcastReachesEveryOpenViewer ==
    \A i \in DOMAIN published :
        LET b == published[i] IN
        /\ ~b.threw
        /\ \A c \in b.open :
               /\ b.data \in Range(sent[c])
               /\ c \notin b.failed => b.data \in Range(received[c])

\* a broadcast in which the send to one viewer threw and a viewer later in
\* wss.clients received the event
C1_Witness ==
    \E i \in DOMAIN published : \E c, d \in published[i].open :
        /\ c \in published[i].failed
        /\ c < d
        /\ published[i].data \in Range(received[d])

\* C2: the chat frames a viewer receives arrive in the order of the
\* broadcast() calls, so two viewers see the frames they both receive in
\* the same order, whichever sources published them.
C2_SameOrderAsBroadcast ==
    /\ \A c \in Conns :
           LET log == ChatFrames(received[c]) IN
           \A j, k \in DOMAIN log : j < k => CallIndex(log[j]) < CallIndex(log[k])
    /\ \A c, d \in Conns :
           LET lc == ChatFrames(received[c])
               ld == ChatFrames(received[d]) IN
           \A j, k \in DOMAIN lc : \A m, n \in DOMAIN ld :
               (j < k /\ lc[j] = ld[m] /\ lc[k] = ld[n]) => m < n

\* two viewers have each received two chat frames that came from different
\* sources
C2_Witness ==
    \E c, d \in Conns :
        /\ c # d
        /\ Len(ChatFrames(received[c])) >= 2
        /\ ChatFrames(received[c]) = ChatFrames(received[d])
        /\ \E i, j \in DOMAIN published : published[i].via # published[j].via

\* C3: a chat message is handed to send() at most once per viewer
\* connection, and only to connections that were OPEN when it was
\* published: a message published while a connection was not OPEN is never
\* sent to it afterwards.
C3_AtMostOnceNoReplay ==
    \A c \in Conns :
        /\ \A j, k \in DOMAIN sent[c] : sent[c][j] = sent[c][k] => j = k
        /\ \A i \in DOMAIN published :
               c \notin published[i].open => published[i].data \notin Range(sent[c])

\* a connection missed one message while it was closing or not yet
\* connected, and another connection that joined after a message was
\* published received a later one
C3_Witness ==
    /\ \E c \in Conns : \E i \in DOMAIN published :
           /\ connectedAt[c] < i
           /\ readyState[c] # "NONE"
           /\ c \notin published[i].open
    /\ \E c \in Conns : \E i, k \in DOMAIN published :
           /\ i < k
           /\ c \notin published[i].open
           /\ published[k].data \in Range(received[c])

\* C4: the first frame handed to send() for a connection, and the first it
\* receives, is the connection acknowledgment; every later frame is a chat
\* frame published after the connection was made.
C4_AckFirstNoHistory ==
    \A c \in Conns :
        /\ sent[c] # <<>> => sent[c][1] = Stringify(AckMsg)
        /\ received[c] # <<>> => received[c][1] = Stringify(AckMsg)
        /\ \A j \in DOMAIN sent[c] :
               j > 1 => /\ IsChat(sent[c][j])
                        /\ CallIndex(sent[c][j]) > connectedAt[c]

\* a viewer that connected after a message was published has received the
\* acknowledgment and a later chat frame
C4_Witness ==
    \E c \in Conns :
        /\ connectedAt[c] >= 1
        /\ Len(received[c]) >= 2

\* C5: every message an adapter's callback publishes has an id no other
\* message of the session has, and the platform of the adapter whose
\* callback received the event.
C5_UniqueIdAdapterPlatform ==
    \A i \in DOMAIN published :
        LET m == published[i].data.json IN
        /\ m.id >= 1
        /\ \A k \in DOMAIN published : published[k].data.json.id = m.id => k = i
        /\ published[i].via \in HostedAdapters => m.platform = published[i].via

----------------------------------------------------------------------------
(* Properties of the Twitch adapter *)

\* the inbound messages that are not the client's own and carry tags
ValidInbound == SelectSeq(inbound, LAMBDA m : ~m.self /\ m.tags # NoTags)

Settled(s) == s \in {"disconnected", "caught"}

\* C6: no exception leaves the Twitch message handler, whether the tags are
\* missing or onMessage throws, and every valid inbound message, also one
\* that follows a failed one, is handed to onMessage, in order.
C6_HandlerContainsErrors ==
    /\ ~escaped
    /\ Len(delivered) = Len(ValidInbound)
    /\ \A i \in DOMAIN delivered :
           /\ delivered[i].raw.tags = ValidInbound[i].tags
           /\ delivered[i].message = ValidInbound[i].message

\* a message without tags, or one for which onMessage threw, was followed
\* by a valid message that reached onMessage
C6_Witness ==
    /\ Len(inbound) = 2
    /\ inbound[1].tags = NoTags \/ (inbound[1].cbThrows /\ ~inbound[1].self)
    /\ ~inbound[2].self /\ inbound[2].tags # NoTags
    /\ delivered # <<>>
    /\ delivered[Len(delivered)].raw.tags = inbound[2].tags

\* C7: once a call of stop() has settled, onMessage is not called again.
C7_NoMessageAfterStop ==
    [][(\E i \in DOMAIN stops : Settled(stops[i])) => delivered' = delivered]_vars

\* C8: no call of stop() ends in an error, and a call made when the client
\* is already down settles at once and changes nothing.
C8_StopIdempotentNeverThrows ==
    /\ [](\A i \in DOMAIN stops : stops[i] # "threw")
    /\ [][(Len(stops') > Len(stops) /\ sock = "null")
            => /\ Settled(stops'[Len(stops')])
               /\ UNCHANGED <<sock, reconnectTimer, wasCloseCalled, twStart,
                              delivered>>]_vars

\* stop() was called, disconnected the client, and was called again
C8_Witness == stops = <<"disconnected", "caught">> /\ sock = "null"

----------------------------------------------------------------------------
(* Properties of start-up *)

\* the configuration keys a platform requires
RequiredKeys(p) ==
    CASE p = "twitch" -> {"TWITCH_USERNAME", "TWITCH_OAUTH", "TWITCH_CHANNELS"}
      [] p = "tiktok" -> {"TIKTOK_USERNAME"}
      [] p = "youtube" -> {"YT_CHANNEL_ID"}

KeysSet(p) == \A k \in RequiredKeys(p) : env[k] # ""

\* C9: a platform whose required keys are not all set is never started and
\* logs no error, and once initializeAdapters has returned every platform
\* whose keys are set has had its start function called.
C9_MissingKeysSkip ==
    /\ \A p \in Platforms :
           ~KeysSet(p) =>
               /\ p \notin tried
               /\ p \notin errLog
               /\ p \notin Range(stopFns)
               /\ p \in HostedAdapters => adapter[p] = "idle"
    /\ initPc = "done" => \A q \in Platforms : KeysSet(q) => q \in tried

\* Twitch has some but not all of its keys and TikTok has none; both were
\* skipped and YouTube, configured, was started
C9_Witness ==
    /\ initPc = "done"
    /\ env["TWITCH_USERNAME"] # "" /\ env["TWITCH_CHANNELS"] = ""
    /\ ~KeysSet("tiktok")
    /\ "twitch" \notin tried /\ "tiktok" \notin tried
    /\ adapter["youtube"] = "connected"

\* C10: an adapter whose start never completes does not keep the other
\* configured adapters and the fake-message generator from being started.
C10_StartsAreIndependent ==
    /\ \A q \in HostedAdapters : [](KeysSet(q) => <>(q \in tried \/ crashed))
    /\ [](FakeConfigured => <>(fakeOn \/ crashed))

----------------------------------------------------------------------------
(* Properties of shutdown *)

\* an adapter whose start function was called and has not failed
Started(p) == adapter[p] \in {"connecting", "connected"}

\* C11: when the process exits on SIGINT, the stop function of every adapter
\* that was started has been invoked, also when the signal arrived while
\* initializeAdapters was still awaiting a start; every registered stop has
\* been invoked whether or not an earlier one threw or rejected, and no
\* exception has reached the event loop.
C11_EveryStartedAdapterStopped ==
    exited =>
        /\ \A p \in HostedAdapters : Started(p) => p \in Range(stopCalls)
        /\ \A i \in DOMAIN stopFns : stopFns[i] \in Range(stopCalls)
        /\ ~crashed

\* C12: once SIGINT has been received the process eventually exits, also
\* when a stop never settles.
C12_ExitsAfterSignal == [](sigRuns # <<>> => <>exited)

----------------------------------------------------------------------------
(* Properties of status reporting *)

\* the frame is a status frame of platform p
IsStatusOf(data, p) ==
    "type" \in DOMAIN data.json /\ data.json.type = p \o "-status"

\* C13: every change of an adapter's connection state (connecting,
\* connected, failed) is published by a broadcast() call of its own whose
\* frame is a "<platform>-status" frame.
C13_TransitionsPublishStatus ==
    [][\A p \in HostedAdapters :
           adapter'[p] # adapter[p] =>
               /\ Len(published') = Len(published) + 1
               /\ IsStatusOf(published'[Len(published')].data, p)]_vars

----------------------------------------------------------------------------
(* Properties of the viewer page *)

\* C14: once the page is mounted, a URL with mode=private has given private
\* mode and a URL with mode=public has given public mode, whatever the
\* private parameter and the path are.
C14_ModeFollowsUrl ==
    isPublicMode # <<>> =>
        /\ location[1].mode = "private" => isPublicMode[1] = FALSE
        /\ location[1].mode = "public" => isPublicMode[1] = TRUE

\* the message carries Twitch's subscriber badge
HasSubscriberBadge(msg) ==
    /\ msg.platform = "twitch"
    /\ \E i \in DOMAIN msg.badges : ToLowerCase(msg.badges[i]) = "subscriber"

\* the positive month counts the raw context holds
PositiveCount(chars) ==
    IF chars # <<>> /\ IsDigit(Head(chars)) /\ ParseInt(chars) > 0
    THEN {ParseInt(chars)} ELSE {}

KnownMonths(raw) ==
    (IF Has(raw, "subscriptionMonths") /\ raw.subscriptionMonths # <<>>
        /\ raw.subscriptionMonths[1] > 0
     THEN {raw.subscriptionMonths[1]} ELSE {})
    \cup (IF Has(raw, "tags") /\ Has(raw.tags, "badges")
          THEN PositiveCount(BadgeValue(raw.tags.badges, "subscriber")) ELSE {})
    \cup (IF Has(raw, "badges")
          THEN PositiveCount(BadgeValue(raw.badges, "subscriber")) ELSE {})

\* C15: for a Twitch message with the subscriber badge the resolver is
\* called, with 1 when the raw context holds no positive month count and
\* with a count the raw context holds otherwise.
C15_UnknownMonthsResolveAsOne ==
    (shown # <<>> /\ HasSubscriberBadge(shown[1])) =>
        /\ monthsAsked # <<>>
        /\ \A i \in DOMAIN monthsAsked :
               IF KnownMonths(shown[1].raw) = {}
               THEN monthsAsked[i] = 1
               ELSE monthsAsked[i] \in KnownMonths(shown[1].raw)

\* a message of the Twitch adapter whose subscriber version does not parse
\* was rendered and one month was asked for
C15_Witness ==
    /\ shown # <<>>
    /\ HasSubscriberBadge(shown[1])
    /\ Has(shown[1].raw, "tags")
    /\ BadgeValue(shown[1].raw.tags.badges, "subscriber") = <<"x">>
    /\ monthsAsked = <<1>>

\* the badge has no renderable reference in the catalog
Unresolved(msg, badge, cat) ==
    LET id == ToLowerCase(badge)
        cheer == id = "bits" \/ StartsWithCheer(id)
    IN  \/ msg.platform # "twitch"
        \/ id = "subscriber" /\ cat.subs = {}
        \/ cheer /\ ~\E t \in cat.cheers : t <= BitsOrOne(msg.raw)
        \/ id # "subscriber" /\ ~cheer /\ id \notin cat.globals

\* C16: every badge of the rendered message has its own result, in source
\* order; a badge without a renderable reference gives the plain-text label
\* in private mode and nothing in public mode, any other badge an image.
C16_UnresolvedBadgeIsLabelOrNothing ==
    shown # <<>> =>
        /\ DOMAIN rendered = DOMAIN shown[1].badges
        /\ \A i \in DOMAIN rendered :
               LET badge == shown[1].badges[i] IN
               IF Unresolved(shown[1], badge, twitchBadges[1])
               THEN rendered[i] =
                        IF isPublicMode[1] THEN [kind |-> "null", key |-> i]
                        ELSE [kind |-> "label", key |-> i, text |-> badge]
               ELSE rendered[i].kind = "img" /\ rendered[i].key = i

\* an unresolved badge was rendered as nothing and a later badge of the same
\* message, written in capitals, as an image
C16_Witness ==
    /\ shown # <<>>
    /\ \E i, j \in DOMAIN rendered :
           /\ i < j
           /\ rendered[i].kind = "null"
           /\ rendered[j].kind = "img"
    /\ \E i \in DOMAIN rendered :
           rendered[i].kind = "img" /\ shown[1].badges[i] = "Subscriber"

----------------------------------------------------------------------------
(* Properties of the Twitch start-up *)

\* C17: with Twitch's three keys set, the start of the Twitch adapter that
\* initializeAdapters attempts does not fail: no start error is logged for
\* it, and once initializeAdapters has returned its stop function is
\* registered.
C17_TwitchStartsWhenConfigured ==
    KeysSet("twitch") =>
        /\ "twitch" \notin errLog
        /\ initPc = "done" => "twitch" \in Range(stopFns)

====
